---- MODULE Spec2Model ----
\* HyperReplay: the account reconstructor (scripts/replay_real_time_accounts.py)
\* and the ADL extractor (scripts/extract_full_12min_adl.py) as state machines.
\*
\* Numbers: Python floats are modelled by integers (all amounts of the model
\* are whole numbers, on which float +, -, * are exact); a quotient is kept as
\* an exact fraction [num, den].  Strings that the code inspects (coin,
\* direction label, market name) are sequences of one-character strings, so
\* that startswith / in / == / replace are computed, not assumed.
\* Times of the reconstructor are milliseconds since 1760126000000 (TLC
\* integers are 32 bit); times of the extractor are microseconds since
\* 2025-10-10 21:00:00 UTC.
EXTENDS Integers, Sequences, FiniteSets, TLC

\* ---------------------------------------------------------------- bounds
\* number of raw input events (fills lines plus misc lines) of one run
MaxEvents == 3
\* number of lines of the node_fills stream of one extractor run
MaxLines == 3

\* ------------------------------------------------------ program constants
SNAPSHOT_TIME == 694218
ADL_START_TIME == 4900000
ADL_END_TIME == 5620000
\* extractor: ADL_START, ADL_END (21:15:00 and 21:27:00), and the line number
\* from which a malformed line is no longer reported
ADL_START == 900000000
ADL_END == 1620000000
WARN_BEFORE_LINE == 10

\* ---------------------------------------------------------------- strings
Str_AutoDeleveraging ==
    <<"A","u","t","o","-","D","e","l","e","v","e","r","a","g","i","n","g">>
Str_Liquidated == <<"L","i","q","u","i","d","a","t","e","d">>
Str_OpenLong == <<"O","p","e","n"," ","L","o","n","g">>
Str_LiquidatedCrossLong == Str_Liquidated \o <<" ","C","r","o","s","s"," ","L","o","n","g">>
Str_AutoDeleveragingLong == Str_AutoDeleveraging \o <<" ","L","o","n","g">>
Str_At == <<"@">>
Str_PURR == <<"P","U","R","R","/","U","S","D","C">>
Str_hyperliquid == <<"h","y","p","e","r","l","i","q","u","i","d",":">>
CoinX == <<"X">>
CoinY == <<"Y">>
CoinSpot == <<"@","1">>

\* str.startswith(prefix)
StartsWith(s, prefix) ==
    /\ Len(s) >= Len(prefix)
    /\ SubSeq(s, 1, Len(prefix)) = prefix

\* `sub in s` on strings
Contains(sub, s) ==
    \E k \in 0..(Len(s) - Len(sub)) : SubSeq(s, k + 1, k + Len(sub)) = sub

\* str.replace(old, ''), old non-empty
RECURSIVE StrRemove(_, _)
StrRemove(s, old) ==
    IF Len(s) < Len(old) THEN s
    ELSE IF StartsWith(s, old)
         THEN StrRemove(SubSeq(s, Len(old) + 1, Len(s)), old)
         ELSE <<s[1]>> \o StrRemove(Tail(s), old)

\* Python None / a present value, for a field that JSON may hold as null
None == <<>>
Some(x) == <<x>>
IsNone(v) == v = None
Val(v) == v[1]

\* sum of f over a finite set of keys
RECURSIVE SumOver(_, _)
SumOver(f, S) ==
    IF S = {} THEN 0
    ELSE LET k == CHOOSE x \in S : TRUE
         IN f[k] + SumOver(f, S \ {k})

Abs(x) == IF x < 0 THEN -x ELSE x

\* the exact value of n / d
Ratio(n, d) == [num |-> n, den |-> d]
ZeroRatio == [num |-> 0, den |-> 1]

\* ------------------------------------------- STEP 1: the snapshot (inputs)
Position(size, entry, notional) ==
    [size |-> size, entry_price |-> entry, notional |-> notional]

\* one entry of market['positions']
SnapPos(user, av, size, entry, notional) ==
    [user |-> user, account_value |-> av, size |-> size,
     entry_price |-> entry, notional_size |-> notional]

\* C appears only in the positions file, with its account value on the position
MarketY_C ==
    [market_name |-> Str_hyperliquid \o CoinY,
     positions |-> <<SnapPos("C", 50, 3, Some(40), 120)>>]

MarketX(size, entry) ==
    [market_name |-> Str_hyperliquid \o CoinX,
     positions |-> <<SnapPos("A", 1000, size, entry, Abs(size) * 100)>>]

MarketY_AC(entry) ==
    [market_name |-> Str_hyperliquid \o CoinY,
     positions |-> <<SnapPos("A", 1000, 1, entry, 40),
                     SnapPos("C", 50, 3, Some(40), 120)>>]

\* the snapshot files a run may be given: [account_values, positions_by_market]
SnapshotInputs ==
    { [account_values |-> <<[user |-> "A", account_value |-> 1000]>>,
       positions_by_market |-> <<MarketX(2, Some(100)), MarketY_C>>],
      [account_values |-> <<[user |-> "A", account_value |-> 0]>>,
       positions_by_market |-> <<MarketX(-2, Some(0)), MarketY_C>>],
      [account_values |-> <<[user |-> "A", account_value |-> 1000]>>,
       positions_by_market |-> <<MarketX(2, None), MarketY_C>>],
      [account_values |-> <<[user |-> "A", account_value |-> 1000]>>,
       positions_by_market |-> <<MarketX(2, Some(100)), MarketY_AC(None)>>] }

\* d with d[k] = v (dict item assignment, creating the key if absent)
DictSet(d, k, v) ==
    [x \in (DOMAIN d) \cup {k} |-> IF x = k THEN v ELSE d[x]]

EmptyDict == [x \in {} |-> 0]

NewAccount(av, t) ==
    [account_value |-> av, positions |-> EmptyDict, snapshot_time |-> t]

\* for acc in account_values: account_states[acc['user']] = {...}
RECURSIVE LoadAccountValues(_, _)
LoadAccountValues(states, avs) ==
    IF avs = <<>> THEN states
    ELSE LoadAccountValues(
             DictSet(states, Head(avs).user,
                     NewAccount(Head(avs).account_value, SNAPSHOT_TIME)),
             Tail(avs))

\* one `pos` of one market: create the account if absent, then set the position
AddSnapshotPosition(states, coin, pos) ==
    LET s1 == IF pos.user \in DOMAIN states THEN states
              ELSE DictSet(states, pos.user,
                           NewAccount(pos.account_value, SNAPSHOT_TIME))
        acc == s1[pos.user]
    IN DictSet(s1, pos.user,
               [acc EXCEPT !.positions =
                   DictSet(acc.positions, coin,
                           Position(pos.size, pos.entry_price, pos.notional_size))])

RECURSIVE LoadMarketPositions(_, _, _)
LoadMarketPositions(states, coin, ps) ==
    IF ps = <<>> THEN states
    ELSE LoadMarketPositions(AddSnapshotPosition(states, coin, Head(ps)), coin, Tail(ps))

RECURSIVE LoadPositions(_, _)
LoadPositions(states, markets) ==
    IF markets = <<>> THEN states
    ELSE LoadPositions(
             LoadMarketPositions(states,
                                 StrRemove(Head(markets).market_name, Str_hyperliquid),
                                 Head(markets).positions),
             Tail(markets))

BuildAccountStates(snap) ==
    LoadPositions(LoadAccountValues(EmptyDict, snap.account_values),
                  snap.positions_by_market)

\* ------------------------------------------------- STEP 2: the raw inputs
\* one (user, details) pair of a line of 20_fills.json / 21_fills.json
\* `liquidation` is None or the liquidatedUser of details['liquidation']
RawFill(user, coin, px, sz, side, dir, closedPnl, fee, startPosition, time, liquidation) ==
    [user |-> user, coin |-> coin, px |-> px, sz |-> sz, side |-> side,
     dir |-> dir, closedPnl |-> closedPnl, fee |-> fee,
     startPosition |-> startPosition, time |-> time, liquidation |-> liquidation]

FillInputs ==
    { RawFill("A", CoinX, 90, 2, "A", Str_AutoDeleveraging, -20, 1, 2, ADL_START_TIME, Some("B")),
      RawFill("A", CoinX, 95, 1, "B", Str_AutoDeleveraging, 1, 1, -1, ADL_START_TIME - 1,
              None),
      RawFill("A", CoinX, 90, 2, "A", Str_AutoDeleveraging, -20, 1, 2, ADL_END_TIME, None),
      RawFill("A", CoinX, 90, 2, "A", Str_AutoDeleveraging, -20, 1, 2, ADL_END_TIME + 1, None),
      RawFill("B", CoinY, 50, 1, "B", Str_OpenLong, 0, 1, 1, ADL_START_TIME, None),
      RawFill("B", CoinY, 60, 1, "A", Str_OpenLong, 2, 0, 0, ADL_START_TIME + 1, None),
      RawFill("A", CoinY, 50, 1, "A", Str_AutoDeleveraging, 3, 0, 0, ADL_START_TIME, None),
      RawFill("A", CoinSpot, 7, 1, "A", Str_AutoDeleveraging, 0, 0, 1, ADL_START_TIME, None),
      RawFill("A", CoinX, 90, 2, "A", Str_AutoDeleveragingLong, -20, 1, 2, ADL_START_TIME, None),
      RawFill("A", CoinX, 80, 2, "A", Str_LiquidatedCrossLong, -40, 1, 2, ADL_START_TIME, None) }

\* one event of a line of 20_misc.json / 21_misc.json: its time (already in
\* milliseconds, the sub-millisecond digits that int() drops left out), the
\* deltas of inner['Funding'] and inner['LedgerUpdate'] (None when absent)
RawMisc(time, funding, ledger) ==
    [time |-> time, funding |-> funding, ledger |-> ledger]
FundingDelta(user, coin, amount) ==
    [user |-> user, coin |-> coin, funding_amount |-> amount]
Ledger(users, type, usdc, toPerp) ==
    [users |-> users, type |-> type, usdc |-> usdc, toPerp |-> toPerp]

MiscInputs ==
    { RawMisc(SNAPSHOT_TIME, <<FundingDelta("A", CoinX, 5)>>, None),
      RawMisc(ADL_START_TIME, <<>>, Some(Ledger(<<"A">>, "deposit", 100, FALSE))),
      RawMisc(ADL_END_TIME, <<>>, Some(Ledger(<<"A">>, "withdraw", 2000, FALSE))),
      RawMisc(ADL_START_TIME, <<>>, Some(Ledger(<<"A">>, "accountClassTransfer", 7, TRUE))),
      RawMisc(ADL_START_TIME - 1, <<>>,
              Some(Ledger(<<"A", "C">>, "accountClassTransfer", 3, FALSE))),
      RawMisc(SNAPSHOT_TIME - 1, <<>>,
              Some(Ledger(<<"C">>, "accountClassTransfer", 10, TRUE))) }

\* all_events.append(e); idx is the position at which e was appended (the
\* identity of the dict, which the in-place sort keeps)
Append_(events, e) ==
    Append(events, [e EXCEPT !.idx = Len(events) + 1])

\* the body of the fills loop for one (user, details)
LoadFillEvent(events, raw) ==
    IF StartsWith(raw.coin, Str_At) \/ raw.coin = Str_PURR
    THEN events
    ELSE Append_(events,
             [type |-> "fill", time |-> raw.time, user |-> raw.user,
              coin |-> raw.coin, price |-> raw.px, size |-> raw.sz,
              side |-> raw.side, direction |-> raw.dir,
              closedPnl |-> raw.closedPnl, fee |-> raw.fee,
              startPosition |-> raw.startPosition,
              liquidation_data |-> raw.liquidation, idx |-> 0])

RECURSIVE LoadFundingDeltas(_, _, _)
LoadFundingDeltas(events, timestamp, deltas) ==
    IF deltas = <<>> THEN events
    ELSE LoadFundingDeltas(
             Append_(events,
                 [type |-> "funding", time |-> timestamp, user |-> Head(deltas).user,
                  coin |-> Head(deltas).coin,
                  funding_amount |-> Head(deltas).funding_amount, idx |-> 0]),
             timestamp, Tail(deltas))

\* mutant: the direction of the transfer is ignored
TransferAmount_Unsigned(usdc_amount, to_perp) ==
    usdc_amount

\* 'amount': usdc_amount if to_perp else -usdc_amount
TransferAmount(usdc_amount, to_perp) ==
    IF to_perp THEN usdc_amount ELSE -usdc_amount

\* the event appended for one user of a LedgerUpdate
LedgerEvent(timestamp, user, ledger) ==
    IF ledger.type = "deposit"
    THEN [type |-> "deposit", time |-> timestamp, user |-> user,
          amount |-> ledger.usdc, idx |-> 0]
    ELSE IF ledger.type = "withdraw"
    THEN [type |-> "withdrawal", time |-> timestamp, user |-> user,
          amount |-> ledger.usdc, idx |-> 0]
    ELSE [type |-> "transfer", time |-> timestamp, user |-> user,
          amount |-> TransferAmount(ledger.usdc, ledger.toPerp), idx |-> 0]

RECURSIVE LoadLedgerUsers(_, _, _, _)
LoadLedgerUsers(events, timestamp, users, ledger) ==
    IF users = <<>> THEN events
    ELSE LoadLedgerUsers(Append_(events, LedgerEvent(timestamp, Head(users), ledger)),
                         timestamp, Tail(users), ledger)

\* the body of the misc loop for one event
LoadMiscEvent(events, raw) ==
    LET afterFunding == LoadFundingDeltas(events, raw.time, raw.funding)
    IN IF IsNone(raw.ledger) THEN afterFunding
       ELSE IF Val(raw.ledger).type \in {"deposit", "withdraw", "accountClassTransfer"}
            THEN LoadLedgerUsers(afterFunding, raw.time,
                                 Val(raw.ledger).users, Val(raw.ledger))
            ELSE afterFunding

\* mutant: an unstable sort, e goes before the elements with its own key
RECURSIVE InsertByTime_Unstable(_, _)
InsertByTime_Unstable(sorted, e) ==
    IF sorted = <<>> THEN <<e>>
    ELSE IF Head(sorted).time < e.time
         THEN <<Head(sorted)>> \o InsertByTime_Unstable(Tail(sorted), e)
         ELSE <<e>> \o sorted

\* list.sort(key=lambda x: x['time']): a stable sort; e goes after every
\* element whose key is <= its own
RECURSIVE InsertByTime(_, _)
InsertByTime(sorted, e) ==
    IF sorted = <<>> THEN <<e>>
    ELSE IF Head(sorted).time <= e.time
         THEN <<Head(sorted)>> \o InsertByTime(Tail(sorted), e)
         ELSE <<e>> \o sorted

RECURSIVE SortFrom(_, _)
SortFrom(sorted, rest) ==
    IF rest = <<>> THEN sorted
    ELSE SortFrom(InsertByTime(sorted, Head(rest)), Tail(rest))

SortByTime(events) == SortFrom(<<>>, events)

\* SNAPSHOT_TIME <= e['time'] <= ADL_END_TIME
InWindow(e) == SNAPSHOT_TIME <= e.time /\ e.time <= ADL_END_TIME

EventsInWindow(sortedEvents) == SelectSeq(sortedEvents, InWindow)

\* ------------------------------------------------ STEP 3: the fold, one event
\* mutant: the fee is not charged
FillAccountValue_NoFee(account_value, event) ==
    account_value + event.closedPnl

\* working_states[user]['account_value'] += closedPnl; ... -= fee
FillAccountValue(account_value, event) ==
    (account_value + event.closedPnl) - event.fee

\* mutant: every fill overwrites the entry price with its own price
FillPositions_OverwriteEntry(positions, event) ==
    LET ps1 == IF event.coin \in DOMAIN positions THEN positions
               ELSE DictSet(positions, event.coin,
                            Position(0, Some(event.price), 0))
    IN DictSet(ps1, event.coin,
               [ps1[event.coin] EXCEPT !.size = event.startPosition,
                                       !.entry_price = Some(event.price)])

\* mutant: the stored size is the size after the trade
FillPositions_PostTrade(positions, event) ==
    LET ps1 == IF event.coin \in DOMAIN positions THEN positions
               ELSE DictSet(positions, event.coin,
                            Position(0, Some(event.price), 0))
        signed == IF event.side = "B" THEN event.size ELSE 0 - event.size
    IN DictSet(ps1, event.coin,
               [ps1[event.coin] EXCEPT !.size = event.startPosition + signed])

\* the positions of the account after a fill: the position is created if
\* absent, then its size is overwritten with startPosition
FillPositions(positions, event) ==
    LET ps1 == IF event.coin \in DOMAIN positions THEN positions
               ELSE DictSet(positions, event.coin,
                            Position(0, Some(event.price), 0))
    IN DictSet(ps1, event.coin,
               [ps1[event.coin] EXCEPT !.size = event.startPosition])

\* the type-specific mutation of the event's account
AccountAfter(acc, event) ==
    IF event.type = "fill"
    THEN [acc EXCEPT !.account_value = FillAccountValue(acc.account_value, event),
                     !.positions = FillPositions(acc.positions, event)]
    ELSE IF event.type = "funding"
    THEN [acc EXCEPT !.account_value = acc.account_value + event.funding_amount]
    ELSE IF event.type = "deposit"
    THEN [acc EXCEPT !.account_value = acc.account_value + event.amount]
    ELSE IF event.type = "withdrawal"
    THEN [acc EXCEPT !.account_value = acc.account_value - event.amount]
    ELSE IF event.type = "transfer"
    THEN [acc EXCEPT !.account_value = acc.account_value + event.amount]
    ELSE acc

\* mutant: the map is rebuilt around the new account
EnsureUser_Reset(ws, event) ==
    IF event.user \in DOMAIN ws THEN ws
    ELSE [u \in {event.user} |-> NewAccount(0, event.time)]

\* if user not in working_states: working_states[user] = {...}
EnsureUser(ws, event) ==
    IF event.user \in DOMAIN ws THEN ws
    ELSE DictSet(ws, event.user, NewAccount(0, event.time))

\* mutant: the mutation is applied to every account of the map
ApplyEvent_Every(ws, event) ==
    LET ws1 == EnsureUser(ws, event)
    IN [u \in DOMAIN ws1 |-> AccountAfter(ws1[u], event)]

\* the account map after the loop body has run for `event`
ApplyEvent(ws, event) ==
    LET ws1 == EnsureUser(ws, event)
    IN DictSet(ws1, event.user, AccountAfter(ws1[event.user], event))

\* mutant: a fill rebuilds the price table around its instrument
ApplyPrice_Rebuild(lp, event) ==
    IF event.type = "fill" THEN [c \in {event.coin} |-> event.price] ELSE lp

\* last_prices after the loop body has run for `event`
ApplyPrice(lp, event) ==
    IF event.type = "fill" THEN DictSet(lp, event.coin, event.price) ELSE lp

\* ------------------------------------------------ STEP 4: identification
IsAdlEvent(e) == e.type = "fill" /\ e.direction = Str_AutoDeleveraging

IsLiquidation(e) ==
    /\ e.type = "fill"
    /\ e.direction # Str_AutoDeleveraging
    /\ Contains(Str_Liquidated, e.direction)

\* ------------------------------------------------ STEP 5: metrics of one ADL
\* last_prices.get(pos_coin, 0)
LastPrice(lp, coin) == IF coin \in DOMAIN lp THEN lp[coin] ELSE 0

\* what one position adds to total_unrealized_pnl
UnrealizedOf(position, current_price) ==
    IF position.size = 0 THEN 0
    ELSE IF current_price = 0 THEN 0
    ELSE IF IsNone(position.entry_price) THEN 0
    ELSE IF Val(position.entry_price) = 0 THEN 0
    ELSE IF position.size > 0
         THEN position.size * (current_price - Val(position.entry_price))
         ELSE Abs(position.size) * (Val(position.entry_price) - current_price)

TotalUnrealizedPnl(account_state, lp) ==
    LET ps == account_state.positions
        each == [c \in DOMAIN ps |-> UnrealizedOf(ps[c], LastPrice(lp, c))]
    IN SumOver(each, DOMAIN ps)

\* no record: the user or the coin is not in the state
MetricsSkips(ws, adl) ==
    \/ adl.user \notin DOMAIN ws
    \/ adl.coin \notin DOMAIN ws[adl.user].positions

\* adl['price'] - entry_price with entry_price None: TypeError
MetricsTypeError(ws, adl) ==
    IsNone(ws[adl.user].positions[adl.coin].entry_price)

PositionUnrealizedPnl(position, price) ==
    IF position.size > 0
    THEN position.size * (price - Val(position.entry_price))
    ELSE Abs(position.size) * (Val(position.entry_price) - price)

PnlPercent(pnl, position_notional) ==
    IF position_notional > 0 THEN Ratio(pnl * 100, position_notional) ELSE ZeroRatio

\* mutant: no guard on the divisor
Leverage_NoGuard(position_notional, account_value) ==
    Ratio(position_notional, account_value)

Leverage(position_notional, account_value) ==
    IF account_value > 0 THEN Ratio(position_notional, account_value) ELSE ZeroRatio

\* the exception the loop body raises for `adl`, "none" if it raises none; a
\* quotient whose divisor is 0 is a ZeroDivisionError
MetricsError(ws, adl) ==
    IF MetricsTypeError(ws, adl) THEN "TypeError"
    ELSE LET account_state == ws[adl.user]
             position == account_state.positions[adl.coin]
             position_notional == Abs(position.size) * adl.price
             pnl == PositionUnrealizedPnl(position, adl.price)
         IN IF \/ PnlPercent(pnl, position_notional).den = 0
               \/ Leverage(position_notional, account_state.account_value).den = 0
            THEN "ZeroDivisionError"
            ELSE "none"

\* the dict appended to adl_with_realtime
AdlRecord(ws, lp, adl) ==
    LET account_state == ws[adl.user]
        position == account_state.positions[adl.coin]
        total_unrealized_pnl == TotalUnrealizedPnl(account_state, lp)
        total_equity == account_state.account_value + total_unrealized_pnl
        position_unrealized_pnl == PositionUnrealizedPnl(position, adl.price)
        position_notional == Abs(position.size) * adl.price
    IN [user |-> adl.user, coin |-> adl.coin, time |-> adl.time,
        adl_price |-> adl.price, adl_size |-> adl.size,
        adl_notional |-> Abs(adl.size) * adl.price,
        closed_pnl |-> adl.closedPnl,
        position_size |-> position.size,
        entry_price |-> Val(position.entry_price),
        account_value_realtime |-> account_state.account_value,
        total_unrealized_pnl |-> total_unrealized_pnl,
        total_equity |-> total_equity,
        is_negative_equity |-> total_equity < 0,
        leverage_realtime |-> Leverage(position_notional, account_state.account_value),
        position_unrealized_pnl |-> position_unrealized_pnl,
        pnl_percent |-> PnlPercent(position_unrealized_pnl, position_notional),
        liquidated_user |-> adl.liquidation_data]

\* ------------------------------------------------ extractor: extract_adl_fills
\* block_time_str: "" (or absent), an ISO time of whole seconds `sec` after
\* 21:00:00 with the digits `frac` after a '.' (None: no '.'), or text that
\* datetime.fromisoformat rejects
TimeEmpty == [kind |-> "empty", sec |-> 0, frac |-> None]
TimeGarbage == [kind |-> "garbage", sec |-> 0, frac |-> None]
TimeIso(sec, frac) == [kind |-> "iso", sec |-> sec, frac |-> frac]

\* frac[:6].ljust(6, '0')
TruncPad6(digits) ==
    [i \in 1..6 |-> IF i <= Len(digits) THEN digits[i] ELSE 0]

\* the microseconds that six digits denote
RECURSIVE DigitsValue(_)
DigitsValue(digits) ==
    IF digits = <<>> THEN 0
    ELSE DigitsValue(SubSeq(digits, 1, Len(digits) - 1)) * 10 + digits[Len(digits)]

\* block_time of an "iso" string, in microseconds since 21:00:00 UTC
ParseBlockTime(t) ==
    t.sec * 1000000
        + (IF IsNone(t.frac) THEN 0 ELSE DigitsValue(TruncPad6(Val(t.frac))))

\* mutant: the end of the window is taken in
InAdlWindow_EndInclusive(block_time) ==
    ~(block_time < ADL_START \/ block_time > ADL_END)

\* not (block_time < ADL_START or block_time >= ADL_END)
InAdlWindow(block_time) ==
    ~(block_time < ADL_START \/ block_time >= ADL_END)

\* one fill dict; px is None when float(px) raises
XFill(dir, coin, px, sz, side, startPosition, closedPnl, fee) ==
    [dir |-> dir, coin |-> coin, px |-> px, sz |-> sz, side |-> side,
     startPosition |-> startPosition, closedPnl |-> closedPnl, fee |-> fee]

\* one element of data['events']: a [user, fill] list, or something else
XEvent(user, fill) == [is_pair |-> TRUE, user |-> user, fill |-> fill]
XNotAPair == [is_pair |-> FALSE, user |-> "", fill |-> None]

\* one line of the stream
XLine(json_ok, block_time_str, events) ==
    [json_ok |-> json_ok, block_time_str |-> block_time_str, events |-> events]

FillAdlX == XFill(Str_AutoDeleveraging, CoinX, Some(90), 2, "A", 2, -20, 1)
FillAdlLongX == XFill(Str_AutoDeleveragingLong, CoinX, Some(95), 1, "B", -1, 4, 1)
FillOpenY == XFill(Str_OpenLong, CoinY, Some(50), 1, "B", 0, 0, 1)
FillAdlSpot == XFill(Str_AutoDeleveraging, CoinSpot, Some(7), 1, "A", 1, 0, 0)
FillOpenSpot == XFill(Str_OpenLong, CoinSpot, Some(7), 1, "B", 0, 0, 0)
FillAdlBadPx == XFill(Str_AutoDeleveraging, CoinY, None, 1, "A", 1, 0, 0)

LineInputs ==
    { XLine(TRUE, TimeIso(900, None), <<XEvent("A", FillAdlX), XEvent("B", FillOpenY)>>),
      XLine(TRUE, TimeIso(1619, Some(<<9, 9, 9, 9, 9, 9, 9>>)),
            <<XEvent("A", FillAdlSpot), XEvent("B", FillAdlLongX), XEvent("B", FillOpenSpot)>>),
      XLine(TRUE, TimeIso(1620, Some(<<0>>)), <<XEvent("A", FillAdlX)>>),
      XLine(TRUE, TimeIso(899, Some(<<9, 9, 9, 9, 9, 9>>)), <<XEvent("A", FillAdlX)>>),
      XLine(TRUE, TimeIso(1000, Some(<<5>>)), <<XNotAPair, XEvent("C", FillAdlX)>>),
      XLine(TRUE, TimeIso(1000, None), <<XEvent("A", FillAdlX), XEvent("A", FillAdlBadPx)>>),
      XLine(TRUE, TimeEmpty, <<XEvent("A", FillAdlX)>>),
      XLine(TRUE, TimeGarbage, <<XEvent("A", FillAdlX)>>),
      XLine(FALSE, TimeEmpty, <<>>) }

\* the dict appended to adl_fills
XRecord(block_time, user, fill) ==
    [block_time |-> block_time, user |-> user, coin |-> fill.coin,
     direction |-> fill.dir, price |-> Val(fill.px), size |-> fill.sz,
     side |-> fill.side, start_position |-> fill.startPosition,
     closed_pnl |-> fill.closedPnl, fee |-> fill.fee,
     notional |-> fill.sz * Val(fill.px)]

\* the `for event in events` loop from the state st = [fills, total, raised]:
\* it stops at the first event that raises
RECURSIVE XProcessEvents(_, _, _)
XProcessEvents(st, block_time, events) ==
    IF events = <<>> THEN st
    ELSE LET ev == Head(events)
         IN IF ~ev.is_pair
            THEN XProcessEvents(st, block_time, Tail(events))
            ELSE LET counted == [st EXCEPT !.total = st.total + 1]
                 IN IF ~Contains(Str_AutoDeleveraging, ev.fill.dir)
                    THEN XProcessEvents(counted, block_time, Tail(events))
                    ELSE IF StartsWith(ev.fill.coin, Str_At)
                    THEN XProcessEvents(counted, block_time, Tail(events))
                    ELSE IF IsNone(ev.fill.px)
                    THEN [counted EXCEPT !.raised = TRUE]
                    ELSE XProcessEvents(
                             [counted EXCEPT !.fills =
                                 Append(counted.fills,
                                        XRecord(block_time, ev.user, ev.fill))],
                             block_time, Tail(events))

\* the body of the try block for one line
XProcessLine(st, line) ==
    IF ~line.json_ok THEN [st EXCEPT !.raised = TRUE]
    ELSE IF line.block_time_str.kind = "empty" THEN st
    ELSE IF line.block_time_str.kind = "garbage" THEN [st EXCEPT !.raised = TRUE]
    ELSE IF ~InAdlWindow(ParseBlockTime(line.block_time_str)) THEN st
    ELSE XProcessEvents(st, ParseBlockTime(line.block_time_str), line.events)

\* if line_num < 10: print(Warning)
XWarns(line_num) == line_num < WARN_BEFORE_LINE

\* ---------------------------------------------------------------- state
VARIABLES
    pc,                \* where the reconstructor script is
    lines_read,        \* raw input events consumed so far
    fills_file,        \* the (user, details) pairs read from the fills files
    misc_file,         \* the events read from the misc files
    account_states,    \* STEP 1: the baseline map
    all_events,        \* STEP 2
    events_in_window,
    working_states,    \* STEP 3
    last_prices,
    event_count,
    adl_events,        \* STEP 4
    liquidations,
    adl_idx,           \* STEP 5: ADL events handled so far
    adl_with_realtime,
    error,             \* the exception that ended the run, or "none"
    x_pc,              \* where the extractor is
    x_lines,           \* the lines of the stream read so far
    line_num,          \* extract_adl_fills: line_num, equal to lines_processed
    adl_fills,
    total_fills,
    x_warned           \* the line numbers for which a warning was printed

rvars == <<pc, lines_read, fills_file, misc_file, account_states, all_events,
           events_in_window, working_states, last_prices, event_count, adl_events,
           liquidations, adl_idx, adl_with_realtime, error>>

xvars == <<x_pc, x_lines, line_num, adl_fills, total_fills, x_warned>>

vars == <<rvars, xvars>>

\* the extractor before its first line
XIdle ==
    /\ x_pc = "extract"
    /\ x_lines = <<>>
    /\ line_num = 0
    /\ adl_fills = <<>>
    /\ total_fills = 0
    /\ x_warned = {}

Init ==
    /\ pc = "load_fills"
    /\ lines_read = 0
    /\ fills_file = <<>>
    /\ misc_file = <<>>
    /\ \E snap \in SnapshotInputs : account_states = BuildAccountStates(snap)
    /\ all_events = <<>>
    /\ events_in_window = <<>>
    /\ working_states = EmptyDict
    /\ last_prices = EmptyDict
    /\ event_count = 0
    /\ adl_events = <<>>
    /\ liquidations = <<>>
    /\ adl_idx = 0
    /\ adl_with_realtime = <<>>
    /\ error = "none"
    /\ XIdle

LoadFill ==
    /\ pc = "load_fills"
    /\ lines_read < MaxEvents
    /\ \E raw \in FillInputs :
          /\ all_events' = LoadFillEvent(all_events, raw)
          /\ fills_file' = Append(fills_file, raw)
    /\ lines_read' = lines_read + 1
    /\ UNCHANGED <<pc, misc_file, account_states, events_in_window, working_states, last_prices,
                   event_count, adl_events, liquidations, adl_idx,
                   adl_with_realtime, error>>
    /\ UNCHANGED xvars

EndFills ==
    /\ pc = "load_fills"
    /\ pc' = "load_misc"
    /\ UNCHANGED <<lines_read, fills_file, misc_file, account_states, all_events, events_in_window,
                   working_states, last_prices, event_count, adl_events,
                   liquidations, adl_idx, adl_with_realtime, error>>
    /\ UNCHANGED xvars

LoadMisc ==
    /\ pc = "load_misc"
    /\ lines_read < MaxEvents
    /\ \E raw \in MiscInputs :
          /\ all_events' = LoadMiscEvent(all_events, raw)
          /\ misc_file' = Append(misc_file, raw)
    /\ lines_read' = lines_read + 1
    /\ UNCHANGED <<pc, fills_file, account_states, events_in_window, working_states, last_prices,
                   event_count, adl_events, liquidations, adl_idx,
                   adl_with_realtime, error>>
    /\ UNCHANGED xvars

\* end of the misc files: sort, filter to the window, deepcopy the baseline
SortAndFilter ==
    /\ pc = "load_misc"
    /\ all_events' = SortByTime(all_events)
    /\ events_in_window' = EventsInWindow(all_events')
    /\ working_states' = account_states
    /\ last_prices' = EmptyDict
    /\ event_count' = 0
    /\ pc' = "fold"
    /\ UNCHANGED <<lines_read, fills_file, misc_file, account_states, adl_events, liquidations, adl_idx,
                   adl_with_realtime, error>>
    /\ UNCHANGED xvars

FoldStep ==
    /\ pc = "fold"
    /\ event_count < Len(events_in_window)
    /\ LET event == events_in_window[event_count + 1]
       IN /\ working_states' = ApplyEvent(working_states, event)
          /\ last_prices' = ApplyPrice(last_prices, event)
    /\ event_count' = event_count + 1
    /\ UNCHANGED <<pc, lines_read, fills_file, misc_file, account_states, all_events, events_in_window,
                   adl_events, liquidations, adl_idx, adl_with_realtime, error>>
    /\ UNCHANGED xvars

\* the fold is over: STEP 4 picks the ADL events and the liquidations
IdentifyAdl ==
    /\ pc = "fold"
    /\ event_count = Len(events_in_window)
    /\ adl_events' = SelectSeq(events_in_window, IsAdlEvent)
    /\ liquidations' = SelectSeq(events_in_window, IsLiquidation)
    /\ adl_idx' = 0
    /\ adl_with_realtime' = <<>>
    /\ pc' = "metrics"
    /\ UNCHANGED <<lines_read, fills_file, misc_file, account_states, all_events, events_in_window,
                   working_states, last_prices, event_count, error>>
    /\ UNCHANGED xvars

MetricsStep ==
    /\ pc = "metrics"
    /\ adl_idx < Len(adl_events)
    /\ LET adl == adl_events[adl_idx + 1]
       IN IF MetricsSkips(working_states, adl)
          THEN UNCHANGED <<pc, adl_with_realtime, error>>
          ELSE IF MetricsError(working_states, adl) # "none"
          THEN /\ pc' = "error"
               /\ error' = MetricsError(working_states, adl)
               /\ UNCHANGED adl_with_realtime
          ELSE /\ adl_with_realtime' =
                      Append(adl_with_realtime,
                             AdlRecord(working_states, last_prices, adl))
               /\ UNCHANGED <<pc, error>>
    /\ adl_idx' = adl_idx + 1
    /\ UNCHANGED <<lines_read, fills_file, misc_file, account_states, all_events, events_in_window,
                   working_states, last_prices, event_count, adl_events,
                   liquidations>>
    /\ UNCHANGED xvars

\* STEP 6 onwards: df = pd.DataFrame(adl_with_realtime); df['adl_notional'] is a
\* KeyError on a frame built from an empty list; otherwise the CSVs are written
Analysis ==
    /\ pc = "metrics"
    /\ adl_idx = Len(adl_events)
    /\ IF adl_with_realtime = <<>>
       THEN pc' = "error" /\ error' = "KeyError"
       ELSE pc' = "done" /\ UNCHANGED error
    /\ UNCHANGED <<lines_read, fills_file, misc_file, account_states, all_events, events_in_window,
                   working_states, last_prices, event_count, adl_events,
                   liquidations, adl_idx, adl_with_realtime>>
    /\ UNCHANGED xvars

Next ==
    \/ LoadFill
    \/ EndFills
    \/ LoadMisc
    \/ SortAndFilter
    \/ FoldStep
    \/ IdentifyAdl
    \/ MetricsStep
    \/ Analysis

Spec == Init /\ [][Next]_vars

\* ---- the extractor run
\* the reconstructor is not running; the stream starts with `skipped` lines of
\* blocks before the window, which leave nothing but the line count
InitX ==
    /\ pc = "load_fills"
    /\ lines_read = 0
    /\ fills_file = <<>>
    /\ misc_file = <<>>
    /\ account_states = EmptyDict
    /\ all_events = <<>>
    /\ events_in_window = <<>>
    /\ working_states = EmptyDict
    /\ last_prices = EmptyDict
    /\ event_count = 0
    /\ adl_events = <<>>
    /\ liquidations = <<>>
    /\ adl_idx = 0
    /\ adl_with_realtime = <<>>
    /\ error = "none"
    /\ x_pc = "extract"
    /\ x_lines = <<>>
    /\ \E skipped \in {0, WARN_BEFORE_LINE - 2} : line_num = skipped
    /\ adl_fills = <<>>
    /\ total_fills = 0
    /\ x_warned = {}

\* one iteration of `for line_num, line in enumerate(f, 1)`
ExtractLine ==
    /\ x_pc = "extract"
    /\ Len(x_lines) < MaxLines
    /\ \E line \in LineInputs :
          LET st == XProcessLine([fills |-> adl_fills, total |-> total_fills,
                                  raised |-> FALSE], line)
          IN /\ x_lines' = Append(x_lines, line)
             /\ line_num' = line_num + 1
             /\ adl_fills' = st.fills
             /\ total_fills' = st.total
             /\ x_warned' = IF st.raised /\ XWarns(line_num')
                            THEN x_warned \cup {line_num'}
                            ELSE x_warned
    /\ UNCHANGED x_pc
    /\ UNCHANGED rvars

\* end of the stream: return pd.DataFrame(adl_fills)
ExtractReturn ==
    /\ x_pc = "extract"
    /\ x_pc' = "extracted"
    /\ UNCHANGED <<x_lines, line_num, adl_fills, total_fills, x_warned>>
    /\ UNCHANGED rvars

NextX ==
    \/ ExtractLine
    \/ ExtractReturn

SpecX == InitX /\ [][NextX]_vars

\* ------------------------------------------------------------- properties
\* the account map and the price table after the first k events of the fold
RECURSIVE FoldWs(_)
FoldWs(k) ==
    IF k = 0 THEN account_states
    ELSE ApplyEvent(FoldWs(k - 1), events_in_window[k])

RECURSIVE FoldLp(_)
FoldLp(k) ==
    IF k = 0 THEN EmptyDict
    ELSE ApplyPrice(FoldLp(k - 1), events_in_window[k])

\* the records of the ADL fills among events k..Len(events_in_window), each
\* computed from the state as it stands when the fold has just applied it
RECURSIVE MomentRecords(_)
MomentRecords(k) ==
    IF k > Len(events_in_window) THEN <<>>
    ELSE LET e == events_in_window[k]
         IN IF /\ IsAdlEvent(e)
               /\ ~MetricsSkips(FoldWs(k), e)
               /\ MetricsError(FoldWs(k), e) = "none"
            THEN <<AdlRecord(FoldWs(k), FoldLp(k), e)>> \o MomentRecords(k + 1)
            ELSE MomentRecords(k + 1)

\* C1: every derived record is the one computed from the account state and the
\* last-price table as they stand when its fill is reached in the forward
\* pass; later events do not change it.
C1_RecordsAtFillMoment ==
    pc = "done" => adl_with_realtime = MomentRecords(1)

\* C2: snapshot A = 1000 with long 2 X at 100; funding +5, then the ADL fill on
\* X of size 2 at 90, realized PnL -20, fee 1, pre-trade size 2: the record has
\* account value 984, position unrealized PnL -20, total equity 964, leverage
\* 180/984 and no negative equity.
C2_Pre ==
    /\ "A" \in DOMAIN account_states
    /\ account_states["A"].account_value = 1000
    /\ DOMAIN account_states["A"].positions = {CoinX}
    /\ account_states["A"].positions[CoinX].size = 2
    /\ account_states["A"].positions[CoinX].entry_price = Some(100)
    /\ Len(events_in_window) = 2
    /\ events_in_window[1].type = "funding"
    /\ events_in_window[1].user = "A"
    /\ events_in_window[1].funding_amount = 5
    /\ events_in_window[2].type = "fill"
    /\ events_in_window[2].user = "A"
    /\ events_in_window[2].coin = CoinX
    /\ events_in_window[2].direction = Str_AutoDeleveraging
    /\ events_in_window[2].price = 90
    /\ events_in_window[2].size = 2
    /\ events_in_window[2].closedPnl = -20
    /\ events_in_window[2].fee = 1
    /\ events_in_window[2].startPosition = 2
    /\ pc \in {"metrics", "done", "error"}
    /\ adl_idx = Len(adl_events)

C2_EndToEnd ==
    C2_Pre =>
        /\ pc # "error"
        /\ Len(adl_with_realtime) = 1
        /\ LET r == adl_with_realtime[1]
           IN /\ r.account_value_realtime = 984
              /\ r.position_unrealized_pnl = -20
              /\ r.total_equity = 964
              /\ r.leverage_realtime.den > 0
              /\ r.leverage_realtime.num * 984 = 180 * r.leverage_realtime.den
              /\ r.is_negative_equity = FALSE

C2_Witness == C2_Pre /\ pc = "done"

\* C4: every derived record has a time t with ADL_START_TIME <= t < ADL_END_TIME.
C4_RecordsInIncidentWindow ==
    \A n \in 1..Len(adl_with_realtime) :
        /\ ADL_START_TIME <= adl_with_realtime[n].time
        /\ adl_with_realtime[n].time < ADL_END_TIME

Ordered(events) ==
    \A i, j \in 1..Len(events) :
        i < j => \/ events[i].time < events[j].time
                 \/ /\ events[i].time = events[j].time
                    /\ events[i].idx < events[j].idx

\* C5: the sorted list holds every loaded event once, in ascending time, ties
\* in the order of appending (fills before misc); the folded sequence keeps
\* that order, and the fold has applied exactly its first event_count events.
C5_SortedStable ==
    pc \notin {"load_fills", "load_misc"} =>
        /\ Ordered(all_events)
        /\ Ordered(events_in_window)
        /\ {all_events[i].idx : i \in 1..Len(all_events)} = 1..Len(all_events)
        /\ \A i, j \in 1..Len(all_events) :
              (all_events[i].type = "fill" /\ all_events[j].type # "fill")
                  => all_events[i].idx < all_events[j].idx
        /\ {events_in_window[i].idx : i \in 1..Len(events_in_window)} =
               {all_events[i].idx : i \in {k \in 1..Len(all_events) : InWindow(all_events[k])}}
        /\ pc = "fold" => working_states = FoldWs(event_count)

\* a run in which the sort moved an event and two folded events share a time
C5_Witness ==
    /\ pc = "fold"
    /\ event_count = Len(events_in_window)
    /\ \E i, j \in 1..Len(events_in_window) :
          /\ i < j
          /\ events_in_window[i].time = events_in_window[j].time
    /\ \E i, j \in 1..Len(events_in_window) :
          /\ i < j
          /\ events_in_window[i].idx > events_in_window[j].idx

Referenced(u) ==
    \E k \in 1..Len(events_in_window) : events_in_window[k].user = u

\* C6: an account of the snapshot that no folded event references keeps its
\* snapshot state (account value, positions, snapshot time) through the fold.
C6_UnreferencedUnchanged ==
    pc \in {"fold", "metrics", "done", "error"} =>
        \A u \in DOMAIN account_states :
            ~Referenced(u) =>
                /\ u \in DOMAIN working_states
                /\ working_states[u] = account_states[u]

C6_Witness ==
    /\ pc = "done"
    /\ \E u \in DOMAIN account_states : ~Referenced(u)
    /\ \E u \in DOMAIN account_states :
          Referenced(u) /\ working_states[u] # account_states[u]

AccountValueIn(states, u) ==
    IF u \in DOMAIN states THEN states[u].account_value ELSE 0

\* how often u is listed in users
RECURSIVE CountUser(_, _)
CountUser(users, u) ==
    IF users = <<>> THEN 0
    ELSE (IF Head(users) = u THEN 1 ELSE 0) + CountUser(Tail(users), u)

\* the signed transfers of u among the first n events of the misc files that
\* fall in the folded window: +usdc when toPerp, -usdc otherwise
RECURSIVE SignedTransferSum(_, _)
SignedTransferSum(u, n) ==
    IF n = 0 THEN 0
    ELSE LET raw == misc_file[n]
             own == IF /\ ~IsNone(raw.ledger)
                       /\ Val(raw.ledger).type = "accountClassTransfer"
                       /\ SNAPSHOT_TIME <= raw.time
                       /\ raw.time <= ADL_END_TIME
                    THEN CountUser(Val(raw.ledger).users, u)
                         * (IF Val(raw.ledger).toPerp THEN Val(raw.ledger).usdc
                            ELSE 0 - Val(raw.ledger).usdc)
                    ELSE 0
         IN own + SignedTransferSum(u, n - 1)

OnlyTransfers(u) ==
    \A k \in 1..Len(events_in_window) :
        events_in_window[k].user = u => events_in_window[k].type = "transfer"

\* C7: for an account whose folded events are all transfers, final value minus
\* initial value is the sum of the signed transfer amounts.
C7_TransferSum ==
    (pc \in {"metrics", "done", "error"}) =>
        \A u \in DOMAIN working_states :
            OnlyTransfers(u) =>
                AccountValueIn(working_states, u) - AccountValueIn(account_states, u)
                    = SignedTransferSum(u, Len(misc_file))

C7_Witness ==
    /\ pc \in {"metrics", "done", "error"}
    /\ OnlyTransfers("A")
    /\ \E i, j \in 1..Len(events_in_window) :
          /\ events_in_window[i].user = "A"
          /\ events_in_window[j].user = "A"
          /\ events_in_window[i].amount > 0
          /\ events_in_window[j].amount < 0
    /\ working_states["A"].account_value = account_states["A"].account_value + 4

\* C8: a record of an account whose value is zero or negative has leverage 0,
\* and no division by zero ends the run.
C8_LeverageZeroGuard ==
    /\ error # "ZeroDivisionError"
    /\ \A n \in 1..Len(adl_with_realtime) :
          adl_with_realtime[n].account_value_realtime <= 0
              => adl_with_realtime[n].leverage_realtime = ZeroRatio

C8_Witness ==
    /\ pc = "done"
    /\ \E n \in 1..Len(adl_with_realtime) :
          /\ adl_with_realtime[n].account_value_realtime = 0
          /\ adl_with_realtime[n].position_size # 0
          /\ adl_with_realtime[n].leverage_realtime = ZeroRatio

\* the account without its positions of entry price 0 or None
WithoutUnpriced(account_state) ==
    LET ps == account_state.positions
        keep == {c \in DOMAIN ps :
                    IF IsNone(ps[c].entry_price) THEN FALSE
                    ELSE Val(ps[c].entry_price) # 0}
    IN [account_state EXCEPT !.positions = [c \in keep |-> ps[c]]]

UnpricedIgnored ==
    \A u \in DOMAIN working_states :
        TotalUnrealizedPnl(working_states[u], last_prices)
            = TotalUnrealizedPnl(WithoutUnpriced(working_states[u]), last_prices)

\* C9: a position of entry price 0 or None adds nothing to the total
\* unrealized PnL of its account, and computing the record raises no error.
C9_UnpricedPositionHarmless ==
    /\ UnpricedIgnored
    /\ error # "TypeError"

\* the account holds a position in the fill's coin when the fold reaches
\* event k
HeldBefore(k) ==
    LET e == events_in_window[k]
        before == FoldWs(k - 1)
    IN /\ e.user \in DOMAIN before
       /\ e.coin \in DOMAIN before[e.user].positions

RECURSIVE RecordsOfHeld(_)
RecordsOfHeld(k) ==
    IF k > Len(events_in_window) THEN <<>>
    ELSE LET e == events_in_window[k]
         IN IF IsAdlEvent(e) /\ HeldBefore(k)
            THEN <<AdlRecord(working_states, last_prices, e)>> \o RecordsOfHeld(k + 1)
            ELSE RecordsOfHeld(k + 1)

\* C10: an ADL fill on an instrument in which the account holds no position is
\* skipped: the output holds the records of the other ADL fills only.
C10_NoPositionSkipped ==
    pc = "done" => adl_with_realtime = RecordsOfHeld(1)

\* a record whose try block cannot raise and whose time is present
WellFormed(line) ==
    /\ line.json_ok
    /\ line.block_time_str.kind = "iso"
    /\ \A i \in 1..Len(line.events) :
          /\ line.events[i].is_pair
          /\ ~IsNone(line.events[i].fill.px)

\* the fills of a record that the claim retains, in order
RECURSIVE Retained(_, _)
Retained(line, i) ==
    IF i > Len(line.events) THEN <<>>
    ELSE LET t == ParseBlockTime(line.block_time_str)
             f == line.events[i].fill
         IN IF /\ ADL_START <= t
               /\ t < ADL_END
               /\ Contains(Str_AutoDeleveraging, f.dir)
               /\ f.coin[1] # "@"
            THEN <<XRecord(t, line.events[i].user, f)>> \o Retained(line, i + 1)
            ELSE Retained(line, i + 1)

\* C3: reading a well-formed record adds to adl_fills exactly its fills with
\* ADL_START <= block_time < ADL_END, a direction label containing
\* "Auto-Deleveraging" and a coin not starting with '@'.
C3_RetainedIff ==
    [][(x_lines' # x_lines /\ WellFormed(x_lines'[Len(x_lines')]))
          => adl_fills' = adl_fills \o Retained(x_lines'[Len(x_lines')], 1)]_vars

\* a run that read a record at the start boundary (kept), one at the end
\* boundary (dropped) and an in-window ADL fill on a '@' coin (dropped)
C3_Witness ==
    /\ Len(x_lines) = 3
    /\ \A i \in 1..3 : WellFormed(x_lines[i])
    /\ \E i \in 1..3 : ParseBlockTime(x_lines[i].block_time_str) = ADL_START
    /\ \E i \in 1..3 : ParseBlockTime(x_lines[i].block_time_str) = ADL_END
    /\ \E i \in 1..3 : \E j \in 1..Len(x_lines[i].events) :
          /\ InAdlWindow(ParseBlockTime(x_lines[i].block_time_str))
          /\ x_lines[i].events[j].fill.coin = CoinSpot
          /\ x_lines[i].events[j].fill.dir = Str_AutoDeleveraging
    /\ \E n \in 1..Len(adl_fills) : adl_fills[n].block_time = ADL_START
    /\ \A n \in 1..Len(adl_fills) :
          /\ adl_fills[n].block_time # ADL_END
          /\ adl_fills[n].coin # CoinSpot

\* the change of account value that an event of the fold carries
EventDelta(e) ==
    IF e.type = "fill" THEN e.closedPnl - e.fee
    ELSE IF e.type = "funding" THEN e.funding_amount
    ELSE IF e.type = "withdrawal" THEN 0 - e.amount
    ELSE e.amount

\* the step of the fold that applies events_in_window[event_count']
IsFoldStep == pc = "fold" /\ event_count' = event_count + 1

\* C11: an event of an account that the snapshot does not hold is no error: the
\* fold creates the account with value 0 and no positions and applies the event
\* to it; no step of the run removes an account from the map.
C11_LazyCreation ==
    [][/\ DOMAIN working_states \subseteq DOMAIN working_states'
       /\ IsFoldStep =>
             LET e == events_in_window[event_count']
             IN /\ error' = "none" /\ pc' = "fold"
                /\ e.user \in DOMAIN working_states'
                /\ e.user \notin DOMAIN working_states =>
                      LET acc == working_states'[e.user]
                      IN /\ acc.account_value = 0 + EventDelta(e)
                         /\ acc.snapshot_time = e.time
                         /\ DOMAIN acc.positions =
                                (IF e.type = "fill" THEN {e.coin} ELSE {})]_vars

\* the fold has created account B, which the snapshot lacks, beside the
\* snapshot's accounts, and has charged the fee of B's fill to it
C11_Witness ==
    /\ pc = "fold"
    /\ "B" \notin DOMAIN account_states
    /\ "B" \in DOMAIN working_states
    /\ DOMAIN account_states \subseteq DOMAIN working_states
    /\ DOMAIN account_states # {}
    /\ working_states["B"].account_value = 0 - 1

\* C12: a divisor that is zero never ends the run: with a position notional of
\* 0, an account value of 0 or zero derived records the quotient is 0 and the
\* script goes on, so no run stops with the exception of a division by zero or
\* of statistics taken over zero records.
C12_ZeroDivisorsContinue ==
    error \notin {"ZeroDivisionError", "KeyError"}

\* the account value of u before a step, 0 for an account not yet tracked
ValueBefore(u) ==
    IF u \in DOMAIN working_states THEN working_states[u].account_value ELSE 0

\* C13: a fill applied by the fold raises the account value by the fill's
\* realized PnL and lowers it by its fee, sets the stored size of the fill's
\* instrument to the fill's startPosition whatever its own size and side, and
\* sets the last price of that instrument to the fill's price.
C13_FillEffect ==
    [][(IsFoldStep /\ events_in_window[event_count'].type = "fill") =>
          LET e == events_in_window[event_count']
              acc == working_states'[e.user]
          IN /\ acc.account_value = (ValueBefore(e.user) + e.closedPnl) - e.fee
             /\ e.coin \in DOMAIN acc.positions
             /\ acc.positions[e.coin].size = e.startPosition
             /\ e.coin \in DOMAIN last_prices'
             /\ last_prices'[e.coin] = e.price]_vars

\* the fold has just applied a fill whose own size differs from its
\* startPosition and whose PnL and fee differ, to an account that already held
\* the instrument with another size
C13_Witness ==
    /\ pc = "fold"
    /\ event_count >= 1
    /\ LET e == events_in_window[event_count]
           before == FoldWs(event_count - 1)
       IN /\ e.type = "fill"
          /\ e.size # e.startPosition
          /\ e.closedPnl # e.fee
          /\ e.user \in DOMAIN before
          /\ e.coin \in DOMAIN before[e.user].positions
          /\ before[e.user].positions[e.coin].size # e.startPosition
          /\ working_states[e.user].positions[e.coin].size = e.startPosition
          /\ working_states[e.user].account_value =
                 (before[e.user].account_value + e.closedPnl) - e.fee
          /\ last_prices[e.coin] = e.price

\* the fold has applied events 1..event_count of the window
Folding == pc \in {"fold", "metrics", "done", "error"}

\* event k of the window is a fill of user u in instrument c
IsFillOf(k, u, c) ==
    LET e == events_in_window[k]
    IN e.type = "fill" /\ e.user = u /\ e.coin = c

\* the applied fills of u in c, by position in the window
FillsOf(u, c) == {k \in 1..event_count : IsFillOf(k, u, c)}

Earliest(S) == CHOOSE k \in S : \A j \in S : k <= j

Latest(S) == CHOOSE k \in S : \A j \in S : j <= k

\* C14 as stated: after any sequence of fills the stored entry price of a
\* position is the price of the most recent fill applied to that account and
\* instrument.
C14_EntryIsLatestFillPrice ==
    Folding =>
        \A u \in DOMAIN working_states :
            \A c \in DOMAIN working_states[u].positions :
                FillsOf(u, c) # {} =>
                    working_states[u].positions[c].entry_price =
                        Some(events_in_window[Latest(FillsOf(u, c))].price)

\* C14 amended: a fill sets the entry price only when it creates the position,
\* to its own price; a position that exists keeps its entry price through every
\* fill. So the stored entry price is the snapshot's for a snapshot position and
\* otherwise the price of the earliest fill applied to that account and
\* instrument.
C14_EntrySetOnCreation ==
    Folding =>
        \A u \in DOMAIN working_states :
            \A c \in DOMAIN working_states[u].positions :
                working_states[u].positions[c].entry_price =
                    (IF u \in DOMAIN account_states
                        /\ c \in DOMAIN account_states[u].positions
                     THEN account_states[u].positions[c].entry_price
                     ELSE Some(events_in_window[Earliest(FillsOf(u, c))].price))

\* a snapshot position with entry price 100 has been through a fill at another
\* price and still has entry price 100, and a position that a fill created has
\* that fill's price after a later fill at another price
C14_Witness ==
    /\ pc = "fold"
    /\ "A" \in DOMAIN working_states
    /\ CoinX \in DOMAIN account_states["A"].positions
    /\ account_states["A"].positions[CoinX].entry_price = Some(100)
    /\ \E k \in FillsOf("A", CoinX) : events_in_window[k].price # 100
    /\ working_states["A"].positions[CoinX].entry_price = Some(100)
    /\ \E u \in DOMAIN working_states :
          /\ u \notin DOMAIN account_states
          /\ \E c \in DOMAIN working_states[u].positions :
                LET first == events_in_window[Earliest(FillsOf(u, c))]
                    last == events_in_window[Latest(FillsOf(u, c))]
                IN /\ first.price # last.price
                   /\ working_states[u].positions[c].entry_price =
                          Some(first.price)

\* a fill whose direction label contains "Auto-Deleveraging", the test of the
\* extractor
LabelledAdl(e) ==
    e.type = "fill" /\ Contains(Str_AutoDeleveraging, e.direction)

\* C15: the reconstructor classifies a fill as a forced-deleveraging fill
\* exactly when its direction label contains "Auto-Deleveraging", as the
\* extractor does: the ADL events of STEP 4 are the fills of the window with
\* such a label.
C15_AdlBySubstring ==
    pc \in {"metrics", "done", "error"} =>
        adl_events = SelectSeq(events_in_window, LabelledAdl)

\* the line raises inside the try block
Malformed(line) ==
    XProcessLine([fills |-> <<>>, total |-> 0, raised |-> FALSE], line).raised

\* the line number of x_lines[n] in the stream
LineNo(n) == (line_num - Len(x_lines)) + n

\* C16: a malformed record is skipped and parsing goes on; warnings go to
\* malformed records only, and wherever in the stream the malformed records
\* occur the first of them is among those that get a warning.
C16_FirstMalformedWarned ==
    /\ x_warned \subseteq {LineNo(n) : n \in {m \in 1..Len(x_lines) : Malformed(x_lines[m])}}
    /\ \A n \in 1..Len(x_lines) :
          (/\ Malformed(x_lines[n])
           /\ \A j \in 1..(n - 1) : ~Malformed(x_lines[j]))
              => LineNo(n) \in x_warned

\* the fills and the in-window fill counter after the first n lines when a line
\* that raises leaves both as they were
RECURSIVE AtomicRun(_)
AtomicRun(n) ==
    IF n = 0 THEN [fills |-> <<>>, total |-> 0, raised |-> FALSE]
    ELSE IF Malformed(x_lines[n]) THEN AtomicRun(n - 1)
    ELSE XProcessLine(AtomicRun(n - 1), x_lines[n])

\* C17: skipping is atomic per record: a record whose processing raises adds no
\* fill to the output and does not change the in-window fill counter, so both
\* are what the records that raise nothing produce.
C17_AtomicSkip ==
    /\ adl_fills = AtomicRun(Len(x_lines)).fills
    /\ total_fills = AtomicRun(Len(x_lines)).total

\* the positions of u before a step, none for an account not yet tracked
PositionsBefore(u) ==
    IF u \in DOMAIN working_states THEN working_states[u].positions
    ELSE EmptyDict

\* C18: a fold step touches only the account its event names: every other
\* account is as before; a funding, deposit, withdrawal or transfer event leaves
\* the positions of its account and the last-price table as they were; a fill
\* leaves the account's positions in other instruments and the last prices of
\* other instruments as they were; and the snapshot map account_states is not
\* changed.
C18_FoldFrame ==
    [][IsFoldStep =>
          LET e == events_in_window[event_count']
              acc == working_states'[e.user]
          IN /\ account_states' = account_states
             /\ \A v \in DOMAIN working_states :
                   v # e.user =>
                      /\ v \in DOMAIN working_states'
                      /\ working_states'[v] = working_states[v]
             /\ DOMAIN working_states' \subseteq DOMAIN working_states \cup {e.user}
             /\ e.type # "fill" =>
                   /\ acc.positions = PositionsBefore(e.user)
                   /\ last_prices' = last_prices
             /\ e.type = "fill" =>
                   /\ DOMAIN acc.positions = DOMAIN PositionsBefore(e.user) \cup {e.coin}
                   /\ \A c \in DOMAIN PositionsBefore(e.user) :
                         c # e.coin => acc.positions[c] = PositionsBefore(e.user)[c]
                   /\ DOMAIN last_prices' = DOMAIN last_prices \cup {e.coin}
                   /\ \A c \in DOMAIN last_prices :
                         c # e.coin => last_prices'[c] = last_prices[c]]_vars

\* the fold has applied a non-fill event and then a fill of an account that
\* holds another instrument, while another account is tracked and the price of
\* another instrument is in the table
C18_Witness ==
    /\ pc = "fold"
    /\ event_count >= 2
    /\ \E j \in 1..(event_count - 1) : events_in_window[j].type # "fill"
    /\ LET e == events_in_window[event_count]
       IN /\ e.type = "fill"
          /\ \E v \in DOMAIN working_states :
                v # e.user /\ working_states[v] = FoldWs(event_count - 1)[v]
          /\ \E c \in DOMAIN working_states[e.user].positions :
                /\ c # e.coin
                /\ working_states[e.user].positions[c] =
                       FoldWs(event_count - 1)[e.user].positions[c]
          /\ \E c \in DOMAIN last_prices :
                c # e.coin /\ last_prices[c] = FoldLp(event_count - 1)[c]
    /\ working_states # account_states

====
